---- MODULE Spec2Model ----
(***************************************************************************)
(* Model of bundle-generation/generate-sha-commits.py: the pipeline        *)
(* manifest sha sync.  main() loads config.yaml, clones the pipeline       *)
(* repository, reads manifest.json and, for every tracked component whose  *)
(* pinned sha differs from a manifest entry, calls update_yaml_field,      *)
(* which re-reads, patches and re-writes config.yaml.                      *)
(***************************************************************************)
EXTENDS Integers, Sequences, FiniteSets, TLC

\* ---------------------------------------------------------------- bounds
MaxRecords == 2     \* records in config.yaml
MaxManifest == 2    \* entries in manifest.json
MaxRuns == 2        \* successive invocations of the script

\* ---------------------------------------------------------------- values
\* Python's None, as returned by dict.get on a missing key and by argparse
\* for an option that was not given.
None == "<None>"

Names == {"a", "b"}
Shas == {"s1", "s2"}

\* yaml.dump sorts mapping keys (sort_keys defaults to True): the keys the
\* documents of the model use, in that order.
KeyOrder == <<"branch", "repo_name", "sha">>

\* The records a config.yaml of the model is built from, as written in the
\* file: a sequence of <<key, value>> lines.  Two records named "a" (so a
\* document can hold the same repo_name twice), records named "b" that carry
\* an extra field and are not in sorted key order, a record without sha and
\* a record without repo_name.
TextRecords ==
    {<< <<"repo_name", "a">>, <<"sha", s>> >> : s \in Shas}
    \cup {<< <<"sha", s>>, <<"repo_name", "b">>, <<"branch", "main">> >> : s \in Shas}
    \cup {<< <<"repo_name", "a">> >>, << <<"sha", "s1">> >>}

SeqUpTo(S, n) == UNION {[1..k -> S] : k \in 0..n}

\* config.yaml on disk: a bare list of records, or a mapping holding the list
\* under the key "components".
ConfigFiles == [wrapped : BOOLEAN, components : SeqUpTo(TextRecords, MaxRecords)]

ManifestEntries == [image_name : Names, git_sha256 : Shas]

\* manifest.json in the pipeline repository: absent, not JSON, or an array.
ManifestFiles ==
    {[kind |-> "missing", data |-> <<>>], [kind |-> "unparsable", data |-> <<>>]}
    \cup [kind : {"ok"}, data : SeqUpTo(ManifestEntries, MaxManifest)]

\* --component: not given, given empty, or the name of a component.
ComponentArgs == {None, "", "a"}

\* ---------------------------------------------------------------- helpers
\* dict.get(key)
Get(d, k) == IF k \in DOMAIN d THEN d[k] ELSE None

Min(S) == CHOOSE x \in S : \A y \in S : x <= y

\* yaml.safe_load of one mapping: key -> value, a repeated key keeps its
\* last value.
LoadRecord(t) ==
    [k \in {t[j][1] : j \in DOMAIN t} |->
        t[CHOOSE j \in DOMAIN t :
            /\ t[j][1] = k
            /\ \A l \in DOMAIN t : t[l][1] = k => l <= j][2]]

\* yaml.safe_load of config.yaml
safe_load(file) ==
    [wrapped |-> file.wrapped,
     components |-> [j \in DOMAIN file.components |-> LoadRecord(file.components[j])]]

\* yaml.dump of one mapping: its keys in sorted order.
DumpRecord(d) ==
    LET keys == SelectSeq(KeyOrder, LAMBDA k : k \in DOMAIN d)
    IN  [j \in DOMAIN keys |-> <<keys[j], d[keys[j]]>>]

\* save_yaml: the whole document is written back.
save_yaml(yaml_data) ==
    [wrapped |-> yaml_data.wrapped,
     components |-> [j \in DOMAIN yaml_data.components |-> DumpRecord(yaml_data.components[j])]]

\* ---------------------------------------------------------------- update_yaml_field
\* The test of the loop in update_yaml_field on one entry of a list.
EntryMatches(entry, repo_name) ==
    /\ "repo_name" \in DOMAIN entry
    /\ entry["repo_name"] = repo_name
    /\ "sha" \in DOMAIN entry

\* The entries `for entry in yaml_data` patches.  Over a list it visits the
\* records; over a mapping it visits the keys, here the string "components",
\* in which the text "repo_name" does not occur, so no entry passes the test.
MatchingEntries(yaml_data, repo_name) ==
    IF yaml_data.wrapped
    THEN {}
    ELSE {j \in DOMAIN yaml_data.components :
            EntryMatches(yaml_data.components[j], repo_name)}

\* update_yaml_field without its break: every matching entry is patched.
update_yaml_field_NoBreak(file, repo_name, new_sha) ==
    LET yaml_data == safe_load(file)
        hits == MatchingEntries(yaml_data, repo_name)
    IN  save_yaml([yaml_data EXCEPT !.components =
            [j \in DOMAIN yaml_data.components |->
                IF j \in hits
                THEN [yaml_data.components[j] EXCEPT !["sha"] = new_sha]
                ELSE yaml_data.components[j]]])

\* update_yaml_field: read the file, set sha on the first matching entry,
\* write the file.  The result is the new content of the file.
update_yaml_field(file, repo_name, new_sha) ==
    LET yaml_data == safe_load(file)
        hits == MatchingEntries(yaml_data, repo_name)
    IN  save_yaml([yaml_data EXCEPT !.components =
            [j \in DOMAIN yaml_data.components |->
                IF hits # {} /\ j = Min(hits)
                THEN [yaml_data.components[j] EXCEPT !["sha"] = new_sha]
                ELSE yaml_data.components[j]]])

\* ---------------------------------------------------------------- main, pure parts
\* `if component:` keeps every record; the filter keeps the records whose
\* repo_name is the argument.  A kept record is named by its position in the
\* loaded list (the list comprehension keeps the loaded objects).
FilterComponents(cfg, arg) ==
    IF arg # None /\ arg # ""
    THEN SelectSeq([j \in DOMAIN cfg.components |-> j],
                   LAMBDA j : Get(cfg.components[j], "repo_name") = arg)
    ELSE [j \in DOMAIN cfg.components |-> j]

\* `if "sha" in repo and "repo_name" in repo`
Tracked(repo) == "sha" \in DOMAIN repo /\ "repo_name" \in DOMAIN repo

\* The test of the inner loop on a manifest entry, without the name test.
Mismatch_AnyName(entry, repo) ==
    entry.git_sha256 # Get(repo, "sha")

\* The test of the inner loop on a manifest entry.
Mismatch(entry, repo) ==
    /\ entry.image_name = Get(repo, "repo_name")
    /\ entry.git_sha256 # Get(repo, "sha")

\* The manifest entries the inner loop would stop at.
Mismatches(repo, manifest) ==
    {j \in DOMAIN manifest : Mismatch(manifest[j], repo)}

\* found_match after the inner loop
FoundMatch(repo, manifest) == Tracked(repo) /\ Mismatches(repo, manifest) # {}

\* The git-sha256 handed to update_yaml_field: the entry the loop breaks at.
NewSha(repo, manifest) == manifest[Min(Mismatches(repo, manifest))].git_sha256

\* One iteration of `for repo in components`, as a function of the file.
LoopBody(file, repo, manifest) ==
    IF FoundMatch(repo, manifest)
    THEN update_yaml_field(file, repo["repo_name"], NewSha(repo, manifest))
    ELSE file

\* The whole loop over the components in the order given.
RECURSIVE RunLoop(_, _, _, _)
RunLoop(order, file, cfg, manifest) ==
    IF order = <<>>
    THEN file
    ELSE RunLoop(Tail(order), LoopBody(file, cfg.components[Head(order)], manifest),
                 cfg, manifest)

\* ---------------------------------------------------------------- state
VARIABLES
    disk,           \* config.yaml
    remote,         \* manifest.json of the pipeline repository
    component,      \* args.component
    pc,             \* position in main
    run,            \* number of the invocation
    config,         \* config, loaded at the start of main
    cloneExists,    \* tmp/<repo> exists
    manifest_data,  \* manifest_data
    components,     \* components, as positions in config
    i,              \* position of `for repo in components`
    start,          \* config.yaml as it was when main loaded it
    twin,           \* the bare list of the same records, patched by the same calls
    prev,           \* config.yaml at the end of the previous run, if it completed
    written         \* the calls of update_yaml_field of this run

vars == <<disk, remote, component, pc, run, config, cloneExists, manifest_data,
          components, i, start, twin, prev, written>>

Terminal == {"done", "exited", "crashed"}

Bare(file) == [wrapped |-> FALSE, components |-> file.components]

Init ==
    /\ disk \in ConfigFiles
    /\ remote \in ManifestFiles
    /\ component \in ComponentArgs
    /\ pc = "start"
    /\ run = 1
    /\ config = safe_load(disk)
    /\ cloneExists = FALSE
    /\ manifest_data = <<>>
    /\ components = <<>>
    /\ i = 1
    /\ start = disk
    /\ twin = Bare(disk)
    /\ prev = [valid |-> FALSE, file |-> disk]
    /\ written = <<>>

\* lines 138-140: config = yaml.safe_load(f)
LoadConfig ==
    /\ pc = "start"
    /\ config' = safe_load(disk)
    /\ start' = disk
    /\ twin' = Bare(disk)
    /\ written' = <<>>
    /\ manifest_data' = <<>>
    /\ components' = <<>>
    /\ i' = 1
    /\ pc' = "clone"
    /\ UNCHANGED <<disk, remote, component, run, cloneExists, prev>>

\* lines 142-148: an existing tmp/<repo> is removed, then the clone creates it.
Clone ==
    /\ pc = "clone"
    /\ cloneExists' = TRUE
    /\ pc' = "fetch"
    /\ UNCHANGED <<disk, remote, component, run, config, manifest_data,
                   components, i, start, twin, prev, written>>

\* lines 150-161: exit(1) when the clone directory or manifest.json is missing.
FetchManifest ==
    /\ pc = "fetch"
    /\ pc' = IF ~cloneExists \/ remote.kind = "missing" THEN "exited" ELSE "read"
    /\ UNCHANGED <<disk, remote, component, run, config, cloneExists,
                   manifest_data, components, i, start, twin, prev, written>>

\* lines 163-165: json.load raises on a file that is not JSON.
ReadManifest ==
    /\ pc = "read"
    /\ IF remote.kind = "unparsable"
       THEN pc' = "crashed" /\ UNCHANGED manifest_data
       ELSE pc' = "normalize" /\ manifest_data' = remote.data
    /\ UNCHANGED <<disk, remote, component, run, config, cloneExists,
                   components, i, start, twin, prev, written>>

\* lines 167-175: both shapes give the list of records, then the filter.
Normalize ==
    /\ pc = "normalize"
    /\ components' = FilterComponents(config, component)
    /\ i' = 1
    /\ pc' = "loop"
    /\ UNCHANGED <<disk, remote, component, run, config, cloneExists,
                   manifest_data, start, twin, prev, written>>

\* The record of the current iteration.
Repo == config.components[components[i]]

\* lines 177-193: one iteration of the loop, update_yaml_field included.
LoopStep ==
    /\ pc = "loop"
    /\ i <= Len(components)
    /\ disk' = LoopBody(disk, Repo, manifest_data)
    /\ twin' = LoopBody(twin, Repo, manifest_data)
    /\ written' = IF FoundMatch(Repo, manifest_data)
                  THEN Append(written, [idx |-> components[i],
                                        sha |-> NewSha(Repo, manifest_data)])
                  ELSE written
    /\ i' = i + 1
    /\ UNCHANGED <<remote, component, pc, run, config, cloneExists,
                   manifest_data, components, start, prev>>

\* lines 33, 187: open(file_path, "w") raises (the file cannot be written);
\* the exception leaves main.
WriteFails ==
    /\ pc = "loop"
    /\ i <= Len(components)
    /\ FoundMatch(Repo, manifest_data)
    /\ pc' = "crashed"
    /\ UNCHANGED <<disk, remote, component, run, config, cloneExists,
                   manifest_data, components, i, start, twin, prev, written>>

\* lines 195-200: after the loop, tmp is removed.
Cleanup ==
    /\ pc = "loop"
    /\ i > Len(components)
    /\ cloneExists' = FALSE
    /\ pc' = "done"
    /\ UNCHANGED <<disk, remote, component, run, config, manifest_data,
                   components, i, start, twin, prev, written>>

\* lines 202-203: the script is invoked again with the same arguments,
\* against the same pipeline repository.
Restart ==
    /\ pc \in Terminal
    /\ run < MaxRuns
    /\ run' = run + 1
    /\ prev' = [valid |-> pc = "done", file |-> disk]
    /\ pc' = "start"
    /\ UNCHANGED <<disk, remote, component, config, cloneExists, manifest_data,
                   components, i, start, twin, written>>

Next ==
    \/ LoadConfig
    \/ Clone
    \/ FetchManifest
    \/ ReadManifest
    \/ Normalize
    \/ LoopStep
    \/ WriteFails
    \/ Cleanup
    \/ Restart

Spec == Init /\ [][Next]_vars

TypeOK ==
    /\ pc \in {"start", "clone", "fetch", "read", "normalize", "loop"} \cup Terminal
    /\ run \in 1..MaxRuns
    /\ Len(disk.components) = Len(start.components)

\* ---------------------------------------------------------------- properties
\* The records of config.yaml as they are now, and as main loaded them.
OnDisk == safe_load(disk).components
Loaded == config.components

\* The tracked components of this run: positions in `components` whose record
\* passes the test of line 178.
TrackedComponents == {n \in DOMAIN components : Tracked(Loaded[components[n]])}

\* The manifest entries named after the record.
NameEntries(repo) ==
    {j \in DOMAIN manifest_data : manifest_data[j].image_name = Get(repo, "repo_name")}

\* The shas update_yaml_field was called with for the record at position k.
WrittenFor(k) == {written[j].sha : j \in {l \in DOMAIN written : written[l].idx = k}}

Range(s) == {s[j] : j \in DOMAIN s}

\* Every order of the same components.
Perms(s) == {p \in [DOMAIN s -> Range(s)] : Range(p) = Range(s)}

\* C1: a second run against the unchanged manifest, following a completed
\* run, leaves config.yaml as the first run left it.
C1_Idempotent ==
    (pc = "done" /\ prev.valid) => disk = prev.file

\* C2: for a tracked component the manifest names twice or more with
\* different hashes, update_yaml_field is called with the hash of the first
\* entry of that name when it differs from the pinned sha, and is not called
\* when it equals the pinned sha; the hash of a later entry is never written.
C2_FirstMatch ==
    pc = "done" =>
        \A n \in TrackedComponents :
            LET k == components[n]
                repo == Loaded[k]
                es == NameEntries(repo)
            IN  (\E j1, j2 \in es :
                    manifest_data[j1].git_sha256 # manifest_data[j2].git_sha256)
                => LET first == manifest_data[Min(es)].git_sha256
                   IN  WrittenFor(k) = IF first # repo["sha"] THEN {first} ELSE {}

\* C3: however the run ends after the clone, the clone directory is gone.
C3_Cleanup ==
    pc \in Terminal => ~cloneExists

\* C4: the run on the wrapper {components: L} leaves the records of L as the
\* run on the bare list L leaves them.
C4_SameShapes ==
    pc = "done" => OnDisk = safe_load(twin).components

\* C5: the number of records whose sha changed in the run is the number of
\* tracked components that have a manifest entry of their name with another
\* hash.
C5_ExactCount ==
    pc = "done" =>
        Cardinality({k \in DOMAIN Loaded : Get(OnDisk[k], "sha") # Get(Loaded[k], "sha")})
        = Cardinality({n \in TrackedComponents :
                        \E j \in NameEntries(Loaded[components[n]]) :
                            manifest_data[j].git_sha256 # Loaded[components[n]]["sha"]})

\* What a write of config.yaml may change: the document keeps its shape, its
\* records and their order; at most one record differs, and every record
\* keeps its set of fields and the value of every field but sha.
FieldsPreserved(before, after) ==
    LET b == safe_load(before).components
        a == safe_load(after).components
    IN  /\ after.wrapped = before.wrapped
        /\ Len(a) = Len(b)
        /\ Cardinality({k \in DOMAIN b : a[k] # b[k]}) <= 1
        /\ \A k \in DOMAIN b :
            /\ DOMAIN a[k] = DOMAIN b[k]
            /\ \A f \in DOMAIN b[k] \ {"sha"} : a[k][f] = b[k][f]

\* C6: every rewrite of config.yaml by update_yaml_field keeps the number
\* and order of the records, leaves every record but the patched one as it
\* was read, and changes only the value of sha in the patched record.
C6_FieldPreservation ==
    [][FieldsPreserved(disk, disk')]_vars

\* A record out of key order and with an extra field has been patched, in a
\* document of two records.
C6_Witness ==
    /\ pc = "loop"
    /\ written # <<>>
    /\ Len(disk.components) = 2
    /\ \E k \in DOMAIN Loaded :
        /\ OnDisk[k] # Loaded[k]
        /\ "branch" \in DOMAIN Loaded[k]
        /\ start.components[k] # disk.components[k]

\* The records not named x have the sha the run started with.
OthersUntouched(x) ==
    \A k \in DOMAIN Loaded :
        Get(Loaded[k], "repo_name") # x
            => Get(OnDisk[k], "sha") = Get(Loaded[k], "sha")

\* C7: when --component X is given, every record whose repo_name is not X
\* has the same sha after the run as before it, whatever X is.
C7_Filter ==
    component # None => OthersUntouched(component)

\* The same for an X that `if component:` takes as given (a non-empty one).
FilterNonEmpty ==
    (component # None /\ component # "") => OthersUntouched(component)

\* C8: when the run completes, config.yaml is the loaded document with every
\* decided update applied: each record an update was decided for holds the
\* hash chosen for it.
C8_NoLostUpdates ==
    pc = "done" =>
        OnDisk = [k \in DOMAIN Loaded |->
                    IF WrittenFor(k) # {}
                    THEN [Loaded[k] EXCEPT !["sha"] = CHOOSE s \in WrittenFor(k) : TRUE]
                    ELSE Loaded[k]]

\* The record of a tracked component that no manifest entry names is on disk
\* as it was loaded.
C9_Untouched ==
    \A n \in TrackedComponents :
        NameEntries(Loaded[components[n]]) = {}
            => OnDisk[components[n]] = Loaded[components[n]]

\* C9: a tracked component that no manifest entry names does not end the
\* run, the loop goes on to the next component, and its record is the same
\* on disk after the run as before.
C9_MissingMatch ==
    /\ []C9_Untouched
    /\ [][(/\ pc = "loop"
           /\ i <= Len(components)
           /\ Tracked(Repo)
           /\ NameEntries(Repo) = {})
          => (pc' = "loop" /\ i' = i + 1 /\ disk' = disk)]_vars

\* The run completed; its first component is named by no manifest entry and
\* a later component was updated.
C9_Witness ==
    /\ pc = "done"
    /\ manifest_data # <<>>
    /\ 1 \in TrackedComponents
    /\ NameEntries(Loaded[components[1]]) = {}
    /\ \E j \in DOMAIN written : written[j].idx # components[1]
    /\ OnDisk # Loaded

\* C10: the document the run leaves is the one every other order of
\* evaluating the same components leaves.
C10_OrderIndependent ==
    pc = "done" =>
        \A p \in Perms(components) :
            RunLoop(p, start, config, manifest_data) = disk

====
